---------------------------- MODULE Spec2Model ----------------------------
(***************************************************************************)
(* A model of SST's Factory (src/sst/core/factory.cc): on-demand library   *)
(* loading, the construction protocol of the creation entry points, the    *)
(* introspection queries, the port-name matcher and the name parser.       *)
(*                                                                         *)
(* Strings are sequences of one-character strings: "a.c" is <<"a",".","c">>*)
(* so that parsing and matching are computed character by character.       *)
(***************************************************************************)
EXTENDS Integers, Sequences, FiniteSets, TLC

VARIABLES
    loaded_libraries,      \* Factory::loaded_libraries
    registered,            \* libraries the ELI database reports (ELI::LoadedLibraries)
    mutexOwner,            \* owner of factoryMutex, or NoThread
    mutexCount,            \* recursion depth of factoryMutex
    loadingComponentType,  \* Factory::loadingComponentType
    stack,                 \* per thread: the frames of the Factory calls in progress
    params,                \* per thread: the allowed-key stack of its Params container
    allowedPorts,          \* per component id: what LinkMap::setAllowedPorts installed
    loadCount,             \* per library: calls of loader->loadLibrary: "0" | "1" | "more"
    result,                \* per thread: what its last outermost call returned
    terminated,            \* "no", or how the process ended: "fatal" | "crash"
    pin,                   \* pure-function harness: the input (a name, or a pattern and a candidate)
    pout                   \* pure-function harness: the function's output once it has run

vars == <<loaded_libraries, registered, mutexOwner, mutexCount,
          loadingComponentType, stack, params, allowedPorts, loadCount,
          result, terminated, pin, pout>>

factoryVars == <<loaded_libraries, registered, mutexOwner, mutexCount,
                 loadingComponentType, stack, params, allowedPorts, loadCount,
                 result, terminated>>

-----------------------------------------------------------------------------
(* Bounds *)

\* deepest nesting of Factory calls on one thread (builders calling back)
MaxDepth == 2
\* most calls one builder makes back into the Factory before it returns
MaxNested == 1
\* longest string given to the name parser
MaxNameLen == 4
\* Pieces a declared port pattern is put together from.
MaxPieces == 3
\* Longest candidate port name given to the matcher.
MaxOfferedLen == 3

-----------------------------------------------------------------------------
(* Strings *)

NUL == "\\0"
EmptyStr == << >>
Digits == {"0", "1", "2", "3", "4", "5", "6", "7", "8", "9"}

\* The character a C string holds at 1-based position i: the terminator
\* right after the last character.
CharAt(s, i) == IF i <= Len(s) THEN s[i] ELSE NUL

\* std::string::find_first_of("."): the 1-based position of the first '.',
\* or 0 for npos.
RECURSIVE FindFirstFrom(_, _)
FindFirstFrom(s, i) ==
    IF i > Len(s) THEN 0
    ELSE IF s[i] = "." THEN i
    ELSE FindFirstFrom(s, i + 1)

FindLastDot(s) ==
    IF \E i \in 1..Len(s) : s[i] = "."
    THEN CHOOSE i \in 1..Len(s) : s[i] = "." /\ \A j \in (i+1)..Len(s) : s[j] # "."
    ELSE 0

find_first_of_dot(s) == FindFirstFrom(s, 1)

\* Factory::parseLoadName: (library, element) and whether the warning was
\* printed; out.output() returns, so nothing here ends the process.
parseLoadNameAt(wholename, found) ==
    IF found = 0
    THEN [lib |-> wholename, elem |-> wholename, warned |-> (wholename = EmptyStr)]
    ELSE [lib    |-> SubSeq(wholename, 1, found - 1),
          elem   |-> SubSeq(wholename, found + 1, Len(wholename)),
          warned |-> FALSE]

parseLoadName(wholename) == parseLoadNameAt(wholename, find_first_of_dot(wholename))

-----------------------------------------------------------------------------
(* checkPort: the port-name matcher, cursor by cursor as the C code runs.  *)
(* x and y are 1-based positions in def and offered.  "oob" is the outcome  *)
(* of a run whose pattern cursor is read beyond the terminator.            *)

\* while ( *x && (*x != ')') ) x++;
RECURSIVE SkipToParen(_, _)
SkipToParen(def, x) ==
    IF CharAt(def, x) # NUL /\ CharAt(def, x) # ")" THEN SkipToParen(def, x + 1) ELSE x

SkipDigits_none(offered, y) == y

\* while ( *y && isdigit(*y) ) y++;
RECURSIVE SkipDigits(_, _)
SkipDigits(offered, y) ==
    IF CharAt(offered, y) # NUL /\ CharAt(offered, y) \in Digits
    THEN SkipDigits(offered, y + 1) ELSE y

\* The placeholder block of one loop iteration: the cursors after it, with
\* st = "fail" for a malformed marker and st = "oob" when the pattern
\* cursor was moved beyond the terminator and read there.
EatPlaceholder(def, offered, x, y) ==
    IF CharAt(def, x) = "%" /\ (CharAt(def, x + 1) = "(" \/ CharAt(def, x + 1) = "d")
    THEN LET x1 == x + 1
             x2 == IF CharAt(def, x1) = "(" THEN SkipToParen(def, x1) + 1 ELSE x1
         IN  IF x2 > Len(def) + 1 THEN [st |-> "oob", x |-> x2, y |-> y]
             ELSE IF CharAt(def, x2) # "d" THEN [st |-> "fail", x |-> x2, y |-> y]
             ELSE [st |-> "ok", x |-> x2 + 1, y |-> SkipDigits(offered, y)]
    ELSE [st |-> "ok", x |-> x, y |-> y]

\* The do { } while ( *x && *y ) loop and the two lines after it.
RECURSIVE CheckPortLoop(_, _, _, _)
CheckPortLoop(def, offered, x, y) ==
    LET c == EatPlaceholder(def, offered, x, y) IN
    IF c.st = "oob" THEN [ret |-> FALSE, oob |-> TRUE]
    ELSE IF c.st = "fail" THEN [ret |-> FALSE, oob |-> FALSE]
    ELSE IF CharAt(def, c.x) # CharAt(offered, c.y) THEN [ret |-> FALSE, oob |-> FALSE]
    ELSE IF CharAt(def, c.x) = NUL THEN [ret |-> TRUE, oob |-> FALSE]
    ELSE IF CharAt(def, c.x + 1) # NUL /\ CharAt(offered, c.y + 1) # NUL
         THEN CheckPortLoop(def, offered, c.x + 1, c.y + 1)
         ELSE [ret |-> CharAt(def, c.x + 1) = CharAt(offered, c.y + 1), oob |-> FALSE]

checkPortRun_noWildcard(def, offered) == CheckPortLoop(def, offered, 1, 1)

\* checkPort's run: the value returned, and whether the run read beyond
\* the pattern's terminator (then the value is not defined by the code).
checkPortRun(def, offered) ==
    IF CharAt(def, 1) = "*" /\ CharAt(def, 2) = NUL THEN [ret |-> TRUE, oob |-> FALSE]
    ELSE CheckPortLoop(def, offered, 1, 1)

\* What a call of checkPort can return: either answer after an undefined read.
checkPort(def, offered) ==
    IF checkPortRun(def, offered).oob THEN {TRUE, FALSE}
    ELSE {checkPortRun(def, offered).ret}

-----------------------------------------------------------------------------
(* The world outside factory.cc: threads, the libraries on disk and what   *)
(* each registers in the ELI databases when the loader opens it.           *)

Threads == {"t1", "t2"}
NoThread == "none"

SST == <<"s", "s", "t">>
La == <<"a">>
Lb == <<"b">>
Ld == <<"d">>
Lx == <<"x">>
Libs == {SST, La, Lb, Ld, Lx, EmptyStr}

\* Libraries the element loader finds on the search paths.  Lx is not there.
OnDisk == {La, Lb, Ld}

\* Names of statistics and slots, and port names offered.
St == <<"s", "t">>
NoSt == <<"n", "o">>
Slot == <<"s", "l">>
P0 == <<"p", "0">>
Px == <<"p", "x">>
Q == <<"q">>

\* Descriptors (ELI info): port patterns, parameter names, statistics, slots.
CompDesc == [ports  |-> << <<"p", "%", "d">> >>,
             params |-> {"k"},
             stats  |-> {[name |-> St, enableLevel |-> 2, units |-> "u"]},
             slots  |-> {Slot}]
SubDesc  == [ports  |-> << <<"q">> >>,
             params |-> {"j"},
             stats  |-> {[name |-> St, enableLevel |-> 3, units |-> "v"]},
             slots  |-> {Slot}]
NbDesc   == [ports  |-> << <<"r">> >>,
             params |-> {"n"},
             stats  |-> {},
             slots  |-> {}]
PlainDesc == [ports |-> << >>, params |-> {"m"}, stats |-> {}, slots |-> {}]

\* ELI::InfoDatabase: per kind and library, the elements with a descriptor.
\* La registers components and sub-components, Lb sub-components only, Ld a
\* component whose builder library is absent.
InfoElems(kind, lib) ==
    CASE kind = "Component"    /\ lib = La  -> {<<"c">>, <<"n", "b">>}
      [] kind = "Component"    /\ lib = Ld  -> {<<"c">>}
      [] kind = "SubComponent" /\ lib = La  -> {<<"s">>}
      [] kind = "SubComponent" /\ lib = Lb  -> {<<"s">>}
      [] kind = "Module"       /\ lib = La  -> {<<"m">>}
      [] kind = "Partitioner"  /\ lib = La  -> {<<"p">>}
      [] kind = "Partitioner"  /\ lib = SST -> {<<"l">>}
      [] kind = "Python"       /\ lib = La  -> {La}
      [] OTHER -> {}

InfoOf(kind, lib, elem) ==
    CASE kind = "Component" /\ elem = <<"n", "b">> -> NbDesc
      [] kind = "Component"    -> CompDesc
      [] kind = "SubComponent" -> SubDesc
      [] OTHER                 -> PlainDesc

\* The builder libraries: per builder kind and library, the elements with a
\* builder.  Component "nb" of La has a descriptor and no builder.
BuilderElems(bkind, lib) ==
    CASE bkind = "Component"    /\ lib = La  -> {<<"c">>}
      [] bkind = "SubComponent" /\ lib = La  -> {<<"s">>}
      [] bkind = "SubComponent" /\ lib = Lb  -> {<<"s">>}
      [] bkind = "ModuleP"      /\ lib = La  -> {<<"m">>}
      [] bkind = "ModuleCP"     /\ lib = La  -> {<<"m">>}
      [] bkind = "Partitioner"  /\ lib = La  -> {<<"p">>}
      [] bkind = "Partitioner"  /\ lib = SST -> {<<"l">>}
      [] bkind = "Python"       /\ lib = La  -> {La}
      [] OTHER -> {}

\* ELI::InfoDatabase::getLibrary<kind>(lib) != NULL
getLibrary(kind, lib) == lib \in registered /\ InfoElems(kind, lib) # {}
\* lib->getInfo(elem) != NULL, for a library that is there
getInfo(kind, lib, elem) == elem \in InfoElems(kind, lib)
\* T::getBuilderLibrary(lib) != NULL
getBuilderLibrary(bkind, lib) == lib \in registered /\ BuilderElems(bkind, lib) # {}
\* builderLib->getBuilder(elem) != NULL
getBuilder(bkind, lib, elem) == elem \in BuilderElems(bkind, lib)

\* loader->loadLibrary(name, showErrors): the libraries registered after the
\* call.  It returns in every case; what it returns is not used.
loaderLoadLibrary(name) == IF name \in OnDisk THEN registered \cup {name} ELSE registered

\* ELI::LoadedLibraries::isLoaded(name), against a given registration state
isLoaded(reg, name) == name \in reg

-----------------------------------------------------------------------------
(* Calls.  A frame is one Factory call in progress on a thread:            *)
(*   op, type, arg  the entry point and its arguments                      *)
(*   lib, elem      what parseLoadName made of the type                    *)
(*   todo           the libraries findLibrary is still to be called for    *)
(*   found          what the last findLibrary returned                     *)
(*   pc             "peek" | "find" | "load" | "insert" | "enter" | "build" *)
(*                  and "fatal" | "crash" for the call that ended the      *)
(*                  process                                                *)
(*   entry, ports0  history: the allowed-key stack and the link map's      *)
(*                  allowed ports when the call began                      *)
(*   ncalls         the calls its builder has made back into the Factory   *)
(*   nested         history: whether one of them was a creation call       *)

LockedBuildOps == {"CreateComponent", "CreateModule", "CreateModuleWithComponent",
                   "CreateSubComponent"}
UnlockedBuildOps == {"CreatePartitioner", "getPythonModule"}
BuildOps == LockedBuildOps \cup UnlockedBuildOps
LockedQueryOps == {"DoesSubComponentSlotExist", "DoesComponentInfoStatisticNameExist",
                   "DoesSubComponentInfoStatisticNameExist",
                   "GetComponentInfoStatisticEnableLevel"}
PeekOps == {"isPortNameValid", "GetComponentInfoStatisticUnits"}
LibraryOps == {"hasLibrary", "RequireEvent", "loadUnloadedLibraries"}
\* the entry points that begin with requireLibrary(elemlib)
RequireOps == (BuildOps \ {"getPythonModule"}) \cup LockedQueryOps \cup {"RequireEvent"}
\* the queries for which an empty type means loadingComponentType
AmbientOps == {"DoesComponentInfoStatisticNameExist",
               "DoesSubComponentInfoStatisticNameExist",
               "GetComponentInfoStatisticEnableLevel",
               "GetComponentInfoStatisticUnits"}

\* Factory::requireLibrary: the libraries it hands to findLibrary.
requireLibrary_nocheck(elemlib) == <<elemlib>>

requireLibrary(elemlib) == IF elemlib = SST THEN << >> ELSE <<elemlib>>

\* Factory::findLibrary's test loaded_libraries.count(elemlib) == 1
alreadyLoaded_never(elemlib) == FALSE

alreadyLoaded(elemlib) == elemlib \in loaded_libraries

\* Factory::loadLibrary's test after the loader call: the loader's own
\* return value is dropped, the ELI database is asked.
loadLibrarySucceeded_unverified(reg, name) == TRUE

loadLibrarySucceeded(reg, name) == isLoaded(reg, name)

\* LinkMap::setAllowedPorts as CreateComponent calls it: what the link map
\* of the component id holds afterwards.
setAllowedPorts_skipped(old, ports) == old

setAllowedPorts(old, ports) == [set |-> TRUE, ports |-> ports]

\* Params::pushAllowedKeys / popAllowedKeys as the creation entry points
\* call them around the builder.
pushAllowedKeys(stk, keys) == Append(stk, keys)

popAllowedKeys_missing(stk) == stk

popAllowedKeys(stk) == SubSeq(stk, 1, Len(stk) - 1)

\* The info kind and builder kind an entry point resolves against.
InfoKind(op) ==
    CASE op = "CreateComponent"           -> "Component"
      [] op = "CreateSubComponent"        -> "SubComponent"
      [] op = "CreateModule"              -> "Module"
      [] op = "CreateModuleWithComponent" -> "Module"
      [] op = "CreatePartitioner"         -> "Partitioner"
      [] op = "getPythonModule"           -> "Python"
BuilderKind(op) ==
    CASE op = "CreateComponent"           -> "Component"
      [] op = "CreateSubComponent"        -> "SubComponent"
      [] op = "CreateModule"              -> "ModuleP"
      [] op = "CreateModuleWithComponent" -> "ModuleCP"
      [] op = "CreatePartitioner"         -> "Partitioner"
      [] op = "getPythonModule"           -> "Python"

\* The nested ifs of a creation entry point: library, info, builder
\* library, builder.  getPythonModule asks the builder library for elemlib.
resolved_noBuilderCheck(op, lib, elem) ==
    /\ getLibrary(InfoKind(op), lib)
    /\ getInfo(InfoKind(op), lib, elem)

resolved(op, lib, elem) ==
    /\ getLibrary(InfoKind(op), lib)
    /\ getInfo(InfoKind(op), lib, elem)
    /\ getBuilderLibrary(BuilderKind(op), lib)
    /\ getBuilder(BuilderKind(op), lib, IF op = "getPythonModule" THEN lib ELSE elem)

NoFrames == << >>
Top(t) == stack[t][Len(stack[t])]
Running(t) == stack[t] # NoFrames
At(t, pcs) == Running(t) /\ Top(t).pc \in pcs
Alive == terminated = "no"

\* the pc after one findLibrary of the frame is done
AfterFind(rest) == IF rest = << >> THEN "enter" ELSE "find"

\* The frame a call starts with: the type is parsed (an empty type of an
\* ambient query is first replaced by loadingComponentType) and, for the
\* entry points that require the library, requireLibrary has chosen
\* between returning at once and findLibrary.  CreateModule of an empty
\* type is fatal before anything else.
NewFrame(op, type, arg, entry, ports0) ==
    LET compTypeToLoad == IF op \in AmbientOps /\ type = EmptyStr
                          THEN loadingComponentType ELSE type
        p    == parseLoadName(compTypeToLoad)
        todo == IF op \in RequireOps THEN requireLibrary(p.lib)
                ELSE IF op = "hasLibrary" THEN <<type>>
                ELSE IF op = "loadUnloadedLibraries" THEN <<La, Lb>>
                ELSE << >>
    IN  [op |-> op, type |-> type, arg |-> arg, lib |-> p.lib, elem |-> p.elem,
         todo |-> todo, found |-> FALSE,
         pc |-> IF op = "CreateModule" /\ type = EmptyStr THEN "fatal"
                ELSE IF op \in PeekOps THEN "peek"
                ELSE IF op = "getLoadedLibraryNames" THEN "names"
                ELSE AfterFind(todo),
         entry |-> entry, ports0 |-> ports0, ncalls |-> 0, nested |-> FALSE]

\* Values returned to the caller: kind says which field counts.
Val(kind, b, n, s) == [kind |-> kind, b |-> b, n |-> n, s |-> s]
VoidVal == Val("void", FALSE, 0, "")
BoolVal(b) == Val("bool", b, 0, "")
IntVal(n) == Val("int", FALSE, n, "")
StrVal(s) == Val("str", FALSE, 0, s)
InstanceVal == Val("instance", FALSE, 0, "")
NullVal == Val("null", FALSE, 0, "")
NoResult == [op |-> "none", type |-> EmptyStr, arg |-> EmptyStr, val |-> VoidVal,
             entry |-> << >>, nested |-> FALSE]

\* factoryMutex, a std::recursive_mutex: free, or held by the caller
CanLock_nonrecursive(t) == mutexOwner = NoThread

CanLock(t) == mutexOwner \in {NoThread, t}
Lock(t) == mutexOwner' = t /\ mutexCount' = mutexCount + 1
Unlock(t) ==
    /\ mutexCount' = mutexCount - 1
    /\ mutexOwner' = IF mutexCount = 1 THEN NoThread ELSE t

SetTop(t, f) == stack' = [stack EXCEPT ![t][Len(stack[t])] = f]

\* The top call of t returns val: its frame goes; an outermost call leaves
\* its result, a nested one marks the builder that made it.
Return(t, val) ==
    LET f == Top(t)
        n == Len(stack[t])
    IN  IF n = 1
        THEN /\ stack' = [stack EXCEPT ![t] = NoFrames]
             /\ result' = [result EXCEPT ![t] =
                    [op |-> f.op, type |-> f.type, arg |-> f.arg, val |-> val,
                     entry |-> f.entry, nested |-> f.nested]]
        ELSE /\ stack' = [stack EXCEPT ![t] =
                    [SubSeq(stack[t], 1, n - 1) EXCEPT ![n - 1].nested =
                        @ \/ f.op \in LockedBuildOps]]
             /\ UNCHANGED result

\* out.fatal() in the top call of t: the process ends with a diagnostic.
Fatal(t) ==
    /\ terminated' = "fatal"
    /\ SetTop(t, [Top(t) EXCEPT !.pc = "fatal"])

-----------------------------------------------------------------------------
(* The calls the threads make *)

Tac  == <<"a", ".", "c">>
Tas  == <<"a", ".", "s">>
Tbs  == <<"b", ".", "s">>
Taz  == <<"a", ".", "z">>
Tanb == <<"a", ".", "n", "b">>
Tdc  == <<"d", ".", "c">>
Txc  == <<"x", ".", "c">>
Tam  == <<"a", ".", "m">>
Tap  == <<"a", ".", "p">>
Tsl  == <<"s", "s", "t", ".", "l">>
Txe  == <<"x", ".", "e">>
Tse  == <<"s", "s", "t", ".", "e">>

\* <<entry point, type or library name, second argument>>: every entry
\* point, on registered and unregistered types.
AllCalls ==
    { <<"hasLibrary", La, EmptyStr>>, <<"hasLibrary", Lx, EmptyStr>>,
      <<"hasLibrary", SST, EmptyStr>>,
      <<"RequireEvent", Txe, EmptyStr>>, <<"RequireEvent", Tse, EmptyStr>>,
      <<"loadUnloadedLibraries", EmptyStr, EmptyStr>>,
      <<"getLoadedLibraryNames", EmptyStr, EmptyStr>>,
      <<"CreateComponent", Tac, EmptyStr>>, <<"CreateComponent", Taz, EmptyStr>>,
      <<"CreateComponent", Tanb, EmptyStr>>, <<"CreateComponent", Tdc, EmptyStr>>,
      <<"CreateComponent", Txc, EmptyStr>>,
      <<"CreateSubComponent", Tbs, EmptyStr>>,
      <<"CreateModule", Tam, EmptyStr>>, <<"CreateModule", EmptyStr, EmptyStr>>,
      <<"CreateModuleWithComponent", Tam, EmptyStr>>,
      <<"CreatePartitioner", Tap, EmptyStr>>, <<"CreatePartitioner", Tsl, EmptyStr>>,
      <<"getPythonModule", La, EmptyStr>>,
      <<"isPortNameValid", Tac, P0>>, <<"isPortNameValid", Tac, Px>>,
      <<"isPortNameValid", Tas, Q>>, <<"isPortNameValid", Tbs, Q>>,
      <<"GetComponentInfoStatisticEnableLevel", Tac, St>>,
      <<"GetComponentInfoStatisticEnableLevel", Tac, NoSt>>,
      <<"GetComponentInfoStatisticEnableLevel", Tas, St>>,
      <<"GetComponentInfoStatisticEnableLevel", Tbs, St>>,
      <<"GetComponentInfoStatisticEnableLevel", Tbs, NoSt>>,
      <<"GetComponentInfoStatisticEnableLevel", Taz, St>>,
      <<"GetComponentInfoStatisticUnits", Tac, St>>,
      <<"DoesSubComponentSlotExist", Tac, Slot>>,
      <<"DoesComponentInfoStatisticNameExist", Tac, St>>,
      <<"DoesSubComponentInfoStatisticNameExist", Tbs, St>> }

\* The second thread makes the calls that contend with the first: a load,
\* a locked and an unlocked creation, an unlocked query.
ContendingCalls ==
    { <<"hasLibrary", La, EmptyStr>>,
      <<"CreateComponent", Tac, EmptyStr>>,
      <<"getPythonModule", La, EmptyStr>>,
      <<"isPortNameValid", Tac, P0>> }

TopCalls(t) == IF t = "t1" THEN AllCalls ELSE ContendingCalls

\* What a builder running inside a creation call may call back; the
\* builders run by the second thread call nothing.
NestedCalls(t) ==
    IF t = "t1"
    THEN { <<"CreateSubComponent", Tbs, EmptyStr>>,
           <<"CreateComponent", Tac, EmptyStr>>,
           <<"GetComponentInfoStatisticEnableLevel", EmptyStr, St>> }
    ELSE {}

ConstructedLibraries_none == {}

\* Factory::Factory: loaded_libraries.insert("sst")
ConstructedLibraries == {SST}

\* The state after the Factory is constructed.  The core's own elements
\* are in the ELI databases from the start.
FactoryInit ==
    /\ loaded_libraries = ConstructedLibraries
    /\ registered = {SST}
    /\ mutexOwner = NoThread
    /\ mutexCount = 0
    /\ loadingComponentType = EmptyStr
    /\ stack = [t \in Threads |-> NoFrames]
    /\ params = [t \in Threads |-> IF t = "t1" THEN << {"g"} >> ELSE << >>]
    /\ allowedPorts = [t \in Threads |-> [set |-> FALSE, ports |-> << >>]]
    /\ loadCount = [l \in Libs |-> "0"]
    /\ result = [t \in Threads |-> NoResult]
    /\ terminated = "no"

NotParsed == [done |-> FALSE, lib |-> EmptyStr, elem |-> EmptyStr, warned |-> FALSE]

Init ==
    /\ FactoryInit
    /\ pin = EmptyStr
    /\ pout = NotParsed

\* A thread calls an entry point, one of calls.
CallFrom(t, calls) ==
    /\ Alive /\ ~Running(t)
    /\ \E c \in calls :
          LET f == NewFrame(c[1], c[2], c[3], params[t], allowedPorts[t])
          IN  /\ stack' = [stack EXCEPT ![t] = <<f>>]
              /\ terminated' = IF f.pc = "fatal" THEN "fatal" ELSE terminated
    /\ result' = [result EXCEPT ![t] = NoResult]
    /\ UNCHANGED <<loaded_libraries, registered, mutexOwner, mutexCount,
                   loadingComponentType, params, allowedPorts, loadCount,
                   pin, pout>>

Call(t) == CallFrom(t, TopCalls(t))

\* A builder that is running calls back into the Factory.
NestedCall(t) ==
    /\ Alive /\ At(t, {"build"}) /\ Top(t).op \in LockedBuildOps
    /\ Len(stack[t]) < MaxDepth /\ Top(t).ncalls < MaxNested
    /\ \E c \in NestedCalls(t) :
          LET f == NewFrame(c[1], c[2], c[3], params[t], allowedPorts[t])
          IN  /\ stack' = [stack EXCEPT ![t] =
                              Append([@ EXCEPT ![Len(@)].ncalls = @ + 1], f)]
              /\ terminated' = IF f.pc = "fatal" THEN "fatal" ELSE terminated
    /\ UNCHANGED <<loaded_libraries, registered, mutexOwner, mutexCount,
                   loadingComponentType, params, allowedPorts, loadCount,
                   result, pin, pout>>

\* isPortNameValid / GetComponentInfoStatisticUnits: the test
\* loaded_libraries.find(elemlib) == end(), made without the lock.  When
\* another thread is about to insert into the set the read races with the
\* write: it may fault, and it may miss a name that is in the set (a name
\* that is not in the set is in no node it could find).
Peek(t) ==
    /\ Alive /\ At(t, {"peek"})
    /\ LET f == Top(t)
           racing == \E u \in Threads \ {t} : At(u, {"insert"})
           seen == IF f.lib \in loaded_libraries
                   THEN IF racing THEN {"yes", "no", "crash"} ELSE {"yes"}
                   ELSE IF racing THEN {"no", "crash"} ELSE {"no"}
       IN  \E o \in seen :
             /\ terminated' = IF o = "crash" THEN "crash" ELSE terminated
             /\ SetTop(t, IF o = "no"
                          THEN [f EXCEPT !.todo = <<f.lib>>, !.pc = "find"]
                          ELSE [f EXCEPT !.pc = "enter"])
    /\ UNCHANGED <<loaded_libraries, registered, mutexOwner, mutexCount,
                   loadingComponentType, params, allowedPorts, loadCount,
                   result, pin, pout>>

\* Factory::findLibrary up to its return or its call of loadLibrary: take
\* the lock, test the set; the lock guard is released on return.
Find(t) ==
    /\ Alive /\ At(t, {"find"}) /\ CanLock(t)
    /\ LET f == Top(t)
           rest == Tail(f.todo)
       IN  IF alreadyLoaded(Head(f.todo))
           THEN /\ SetTop(t, [f EXCEPT !.todo = rest, !.found = TRUE,
                                       !.pc = AfterFind(rest)])
                /\ UNCHANGED <<mutexOwner, mutexCount>>
           ELSE /\ SetTop(t, [f EXCEPT !.pc = "load"])
                /\ Lock(t)
    /\ UNCHANGED <<loaded_libraries, registered, loadingComponentType, params,
                   allowedPorts, loadCount, result, terminated, pin, pout>>

\* Factory::loadLibrary, first half: the loader is called, then isLoaded is
\* asked; a library that did not register makes findLibrary return false.
Load(t) ==
    /\ Alive /\ At(t, {"load"})
    /\ LET f == Top(t)
           name == Head(f.todo)
           rest == Tail(f.todo)
           reg == loaderLoadLibrary(name)
       IN  /\ registered' = reg
           /\ loadCount' = [loadCount EXCEPT ![name] = IF @ = "0" THEN "1" ELSE "more"]
           /\ IF loadLibrarySucceeded(reg, name)
              THEN /\ SetTop(t, [f EXCEPT !.pc = "insert"])
                   /\ UNCHANGED <<mutexOwner, mutexCount>>
              ELSE /\ SetTop(t, [f EXCEPT !.todo = rest, !.found = FALSE,
                                          !.pc = AfterFind(rest)])
                   /\ Unlock(t)
    /\ UNCHANGED <<loaded_libraries, loadingComponentType, params,
                   allowedPorts, result, terminated, pin, pout>>

\* Factory::loadLibrary, second half: loaded_libraries.insert(name), and
\* findLibrary returns true.
Insert(t) ==
    /\ Alive /\ At(t, {"insert"})
    /\ LET f == Top(t)
           rest == Tail(f.todo)
       IN  /\ loaded_libraries' = loaded_libraries \cup {Head(f.todo)}
           /\ SetTop(t, [f EXCEPT !.todo = rest, !.found = TRUE,
                                  !.pc = AfterFind(rest)])
    /\ Unlock(t)
    /\ UNCHANGED <<registered, loadingComponentType, params, allowedPorts,
                   loadCount, result, terminated, pin, pout>>

\* hasLibrary, RequireEvent and loadUnloadedLibraries return once their
\* findLibrary calls are done.
LibraryReturn(t) ==
    /\ Alive /\ At(t, {"enter"}) /\ Top(t).op \in LibraryOps
    /\ Return(t, IF Top(t).op = "hasLibrary" THEN BoolVal(Top(t).found) ELSE VoidVal)
    /\ UNCHANGED <<loaded_libraries, registered, mutexOwner, mutexCount,
                   loadingComponentType, params, allowedPorts, loadCount,
                   terminated, pin, pout>>

\* Factory::getLoadedLibraryNames: the set is iterated and copied into the
\* caller's set, without the lock.  When another thread is about to insert
\* into the set the iteration races with the write and may fault.
getLoadedLibraryNames(t) ==
    /\ Alive /\ At(t, {"names"})
    /\ LET racing == \E u \in Threads \ {t} : At(u, {"insert"})
       IN  \E o \in (IF racing THEN {"ret", "crash"} ELSE {"ret"}) :
             IF o = "crash"
             THEN /\ terminated' = "crash"
                  /\ SetTop(t, [Top(t) EXCEPT !.pc = "crash"])
                  /\ UNCHANGED result
             ELSE Return(t, VoidVal) /\ UNCHANGED terminated
    /\ UNCHANGED <<loaded_libraries, registered, mutexOwner, mutexCount,
                   loadingComponentType, params, allowedPorts, loadCount, pin, pout>>

\* CreateComponent / CreateModule / CreateModuleWithComponent /
\* CreateSubComponent after requireLibrary: take the lock and resolve; on a
\* hit install the ports (a component), set loadingComponentType (a
\* component), push the parameter names and enter the builder; on a miss
\* out.fatal().
EnterCreate(t) ==
    /\ Alive /\ At(t, {"enter"}) /\ Top(t).op \in LockedBuildOps /\ CanLock(t)
    /\ LET f == Top(t)
           info == InfoOf(InfoKind(f.op), f.lib, f.elem)
       IN  IF resolved(f.op, f.lib, f.elem)
           THEN /\ Lock(t)
                /\ SetTop(t, [f EXCEPT !.pc = "build"])
                /\ params' = [params EXCEPT ![t] = pushAllowedKeys(@, info.params)]
                /\ IF f.op = "CreateComponent"
                   THEN /\ allowedPorts' = [allowedPorts EXCEPT ![t] =
                                               setAllowedPorts(@, info.ports)]
                        /\ loadingComponentType' = f.type
                   ELSE UNCHANGED <<allowedPorts, loadingComponentType>>
                /\ UNCHANGED terminated
           ELSE /\ Fatal(t)
                /\ UNCHANGED <<mutexOwner, mutexCount, params, allowedPorts,
                               loadingComponentType>>
    /\ UNCHANGED <<loaded_libraries, registered, loadCount, result, pin, pout>>

\* The builder of a locked creation call returns: pop the allowed keys,
\* clear loadingComponentType (a component), release the lock, return the
\* instance.
BuilderReturn(t) ==
    /\ Alive /\ At(t, {"build"}) /\ Top(t).op \in LockedBuildOps
    /\ params' = [params EXCEPT ![t] = popAllowedKeys(@)]
    /\ loadingComponentType' =
          IF Top(t).op = "CreateComponent" THEN EmptyStr ELSE loadingComponentType
    /\ Unlock(t)
    /\ Return(t, InstanceVal)
    /\ UNCHANGED <<loaded_libraries, registered, allowedPorts, loadCount,
                   terminated, pin, pout>>

\* CreatePartitioner (after requireLibrary) and getPythonModule: resolve
\* and enter the builder, without the lock.  A miss is fatal for a
\* partitioner and NULL for a python module.
EnterCreateUnlocked(t) ==
    /\ Alive /\ At(t, {"enter"}) /\ Top(t).op \in UnlockedBuildOps
    /\ LET f == Top(t)
       IN  IF resolved(f.op, f.lib, f.elem)
           THEN /\ SetTop(t, [f EXCEPT !.pc = "build"])
                /\ UNCHANGED <<terminated, result>>
           ELSE IF f.op = "CreatePartitioner"
           THEN Fatal(t) /\ UNCHANGED result
           ELSE Return(t, NullVal) /\ UNCHANGED terminated
    /\ UNCHANGED <<loaded_libraries, registered, mutexOwner, mutexCount,
                   loadingComponentType, params, allowedPorts, loadCount, pin, pout>>

\* fact->create() of a partitioner or a python module returns.
UnlockedBuilderReturn(t) ==
    /\ Alive /\ At(t, {"build"}) /\ Top(t).op \in UnlockedBuildOps
    /\ Return(t, InstanceVal)
    /\ UNCHANGED <<loaded_libraries, registered, mutexOwner, mutexCount,
                   loadingComponentType, params, allowedPorts, loadCount,
                   terminated, pin, pout>>

-----------------------------------------------------------------------------
(* Introspection *)

StatsNamed(info, name) == {st \in info.stats : st.name = name}
LevelIn(info, name) ==
    IF StatsNamed(info, name) = {} THEN 0
    ELSE (CHOOSE st \in StatsNamed(info, name) : TRUE).enableLevel

\* What a locked query does once it holds the lock: [fatal, val].
\* GetComponentInfoStatisticEnableLevel and DoesSubComponentSlotExist ask
\* the component database for the library first and answer from it alone
\* when the library is there; only otherwise the sub-component database.
QueryOutcome(op, lib, elem, arg) ==
    LET compLib == getLibrary("Component", lib)
        subLib  == getLibrary("SubComponent", lib)
        cInfo   == InfoOf("Component", lib, elem)
        sInfo   == InfoOf("SubComponent", lib, elem)
        hasC    == getInfo("Component", lib, elem)
        hasS    == getInfo("SubComponent", lib, elem)
        ret(v)  == [fatal |-> FALSE, val |-> v]
        die     == [fatal |-> TRUE, val |-> VoidVal]
    IN  CASE op = "GetComponentInfoStatisticEnableLevel" ->
               IF compLib THEN ret(IntVal(IF hasC THEN LevelIn(cInfo, arg) ELSE 0))
               ELSE IF subLib THEN ret(IntVal(IF hasS THEN LevelIn(sInfo, arg) ELSE 0))
               ELSE die
          [] op = "DoesSubComponentSlotExist" ->
               IF compLib THEN ret(BoolVal(hasC /\ arg \in cInfo.slots))
               ELSE IF subLib THEN ret(BoolVal(hasS /\ arg \in sInfo.slots))
               ELSE die
          [] op = "DoesComponentInfoStatisticNameExist" ->
               IF compLib /\ hasC THEN ret(BoolVal(StatsNamed(cInfo, arg) # {}))
               ELSE die
          [] op = "DoesSubComponentInfoStatisticNameExist" ->
               IF subLib /\ hasS THEN ret(BoolVal(StatsNamed(sInfo, arg) # {}))
               ELSE die

\* A locked query after requireLibrary: take the lock, answer or
\* out.fatal(); the lock guard is released on return.
Query(t) ==
    /\ Alive /\ At(t, {"enter"}) /\ Top(t).op \in LockedQueryOps /\ CanLock(t)
    /\ LET f == Top(t)
           o == QueryOutcome(f.op, f.lib, f.elem, f.arg)
       IN  IF o.fatal
           THEN Fatal(t) /\ UNCHANGED result
           ELSE Return(t, o.val) /\ UNCHANGED terminated
    /\ UNCHANGED <<loaded_libraries, registered, mutexOwner, mutexCount,
                   loadingComponentType, params, allowedPorts, loadCount, pin, pout>>

\* for ( auto p : *portNames ) if ( checkPort(p, port_name) ) return true;
\* return false;  -- the values the scan can return
ScanPorts(portNames, port_name) ==
    {b \in BOOLEAN :
        IF b
        THEN \E i \in 1..Len(portNames) :
                /\ TRUE \in checkPort(portNames[i], port_name)
                /\ \A j \in 1..(i - 1) : FALSE \in checkPort(portNames[j], port_name)
        ELSE \A i \in 1..Len(portNames) : FALSE \in checkPort(portNames[i], port_name)}

\* Factory::isPortNameValid after the library test: the ways it can end,
\* [end, val] with end "ret" | "fatal" | "crash".  The sub-component
\* branch looks elemlib up, not elem; with no port names found the
\* diagnostic iterates lib->getMap() of the component library pointer,
\* which is NULL when that branch was taken.
isPortNameValidOutcomes(lib, elem, port_name) ==
    LET compLib == getLibrary("Component", lib)
        subLib  == getLibrary("SubComponent", lib)
        found   == IF compLib THEN getInfo("Component", lib, elem)
                   ELSE subLib /\ getInfo("SubComponent", lib, lib)
        names   == IF compLib THEN InfoOf("Component", lib, elem).ports
                   ELSE InfoOf("SubComponent", lib, lib).ports
    IN  IF found
        THEN {[end |-> "ret", val |-> BoolVal(b)] : b \in ScanPorts(names, port_name)}
        ELSE IF compLib THEN {[end |-> "fatal", val |-> VoidVal]}
        ELSE {[end |-> "crash", val |-> VoidVal], [end |-> "fatal", val |-> VoidVal]}

\* Factory::GetComponentInfoStatisticUnits after the library test: only
\* the component database is asked; a statistic that is not there makes
\* the function return 0 as a std::string, a construction from a null
\* pointer.
UnitsOutcomes(lib, elem, name) ==
    LET compLib == getLibrary("Component", lib)
        info    == InfoOf("Component", lib, elem)
    IN  IF compLib
        THEN IF getInfo("Component", lib, elem) /\ StatsNamed(info, name) # {}
             THEN {[end |-> "ret",
                    val |-> StrVal((CHOOSE st \in StatsNamed(info, name) : TRUE).units)]}
             ELSE {[end |-> "crash", val |-> VoidVal]}
        ELSE {[end |-> "fatal", val |-> VoidVal]}

\* isPortNameValid / GetComponentInfoStatisticUnits once the library test
\* (and findLibrary, if it was called) is done; no lock is taken.
UnlockedQuery(t) ==
    /\ Alive /\ At(t, {"enter"}) /\ Top(t).op \in PeekOps
    /\ LET f == Top(t)
           os == IF f.op = "isPortNameValid"
                 THEN isPortNameValidOutcomes(f.lib, f.elem, f.arg)
                 ELSE UnitsOutcomes(f.lib, f.elem, f.arg)
       IN  \E o \in os :
             CASE o.end = "ret"   -> Return(t, o.val) /\ UNCHANGED terminated
               [] o.end = "fatal" -> Fatal(t) /\ UNCHANGED result
               [] o.end = "crash" -> /\ terminated' = "crash"
                                     /\ SetTop(t, [f EXCEPT !.pc = "crash"])
                                     /\ UNCHANGED result
    /\ UNCHANGED <<loaded_libraries, registered, mutexOwner, mutexCount,
                   loadingComponentType, params, allowedPorts, loadCount, pin, pout>>

-----------------------------------------------------------------------------
Step(t) ==
    \/ Call(t)
    \/ NestedCall(t)
    \/ Peek(t)
    \/ Find(t)
    \/ Load(t)
    \/ Insert(t)
    \/ LibraryReturn(t)
    \/ EnterCreate(t)
    \/ BuilderReturn(t)
    \/ EnterCreateUnlocked(t)
    \/ UnlockedBuilderReturn(t)
    \/ Query(t)
    \/ UnlockedQuery(t)
    \/ getLoadedLibraryNames(t)

Next == \E t \in Threads : Step(t)

Spec == Init /\ [][Next]_vars

\* The same program with fewer kinds of calls, and fair scheduling: a
\* thread that can take a step again and again takes one, which for a
\* thread waiting for factoryMutex means it gets the lock in the end.
FairCalls(t) ==
    IF t = "t1"
    THEN { <<"CreateComponent", Tac, EmptyStr>>,
           <<"CreateSubComponent", Tbs, EmptyStr>>,
           <<"CreatePartitioner", Tsl, EmptyStr>>,
           <<"isPortNameValid", Tac, P0>>,
           <<"DoesSubComponentSlotExist", Tac, Slot>> }
    ELSE { <<"CreateComponent", Tac, EmptyStr>>,
           <<"hasLibrary", Lb, EmptyStr>> }

FairCall(t) == CallFrom(t, FairCalls(t))

FairStep(t) ==
    \/ FairCall(t)
    \/ NestedCall(t)
    \/ Peek(t)
    \/ Find(t)
    \/ Load(t)
    \/ Insert(t)
    \/ LibraryReturn(t)
    \/ EnterCreate(t)
    \/ BuilderReturn(t)
    \/ EnterCreateUnlocked(t)
    \/ UnlockedBuilderReturn(t)
    \/ Query(t)
    \/ UnlockedQuery(t)

FairNext == \E t \in Threads : FairStep(t)

FairSpec == Init /\ [][FairNext]_vars /\ \A t \in Threads : SF_vars(FairStep(t))


-----------------------------------------------------------------------------
(* The name parser on its own: every string over a three-letter alphabet   *)
(* up to MaxNameLen characters is parsed once.                             *)

NameChars == {"a", "b", "."}
Names == UNION {[1..n -> NameChars] : n \in 0..MaxNameLen}

ParseInit ==
    /\ FactoryInit
    /\ pin \in Names
    /\ pout = NotParsed

ParseCall ==
    /\ ~pout.done
    /\ LET r == parseLoadName(pin)
       IN  pout' = [done |-> TRUE, lib |-> r.lib, elem |-> r.elem, warned |-> r.warned]
    /\ UNCHANGED <<pin, factoryVars>>

ParseSpec == ParseInit /\ [][ParseCall]_vars

-----------------------------------------------------------------------------
(* The port matcher on its own: every pattern put together from at most    *)
(* MaxPieces pieces (single characters, the two placeholder forms and two  *)
(* broken markers) against every candidate up to MaxOfferedLen characters. *)

PatternPieces ==
    { <<"p">>, <<"1">>, <<"*">>, <<"%">>, <<"d">>,
      <<"%", "d">>,
      <<"%", "(", "n", ")", "d">>,
      <<"%", "(", "n", ")">>,
      <<"%", "(", "n">> }

RECURSIVE Concat(_)
Concat(ps) == IF ps = << >> THEN << >> ELSE Head(ps) \o Concat(Tail(ps))

Patterns == { Concat(ps) : ps \in UNION {[1..n -> PatternPieces] : n \in 0..MaxPieces} }

OfferedChars == {"p", "1"}
OfferedNames == UNION {[1..n -> OfferedChars] : n \in 0..MaxOfferedLen}

NotMatched == [done |-> FALSE, ret |-> FALSE, oob |-> FALSE]

PortInit ==
    /\ FactoryInit
    /\ pin \in [def : Patterns, offered : OfferedNames]
    /\ pout = NotMatched

\* One call checkPort(def, offered): the value it returns, and whether the
\* pattern cursor was read beyond the terminator on the way.
PortCall ==
    /\ ~pout.done
    /\ \E r \in checkPort(pin.def, pin.offered) :
          pout' = [done |-> TRUE, ret |-> r, oob |-> checkPortRun(pin.def, pin.offered).oob]
    /\ UNCHANGED <<pin, factoryVars>>

PortSpec == PortInit /\ [][PortCall]_vars

-----------------------------------------------------------------------------
(* Claims *)

Frames(t) == {stack[t][i] : i \in 1..Len(stack[t])}
Dots(s) == {i \in 1..Len(s) : s[i] = "."}

\* C1: once a library is in loaded_libraries the loader is never invoked
\* for it again: a thread inside loadLibrary is there for a library that is
\* not in the set, every loaded library other than "sst" has had exactly one
\* loader invocation, whatever the interleaving, and an existence check
\* that answered false was for a library that is not in the set.
C1_LoadOnce ==
    /\ \A t \in Threads :
          At(t, {"load", "insert"}) => Head(Top(t).todo) \notin loaded_libraries
    /\ \A l \in loaded_libraries \ {SST} : loadCount[l] = "1"
    /\ \A t \in Threads :
          (result[t].op = "hasLibrary" /\ ~result[t].val.b)
             => result[t].type \notin loaded_libraries

\* Two threads ask for the same unloaded library at the same time: one is
\* about to insert it, the other waits in findLibrary for the lock.
C1_Witness ==
    /\ At("t2", {"insert"}) /\ Head(Top("t2").todo) = La
    /\ At("t1", {"find"}) /\ Head(Top("t1").todo) = La
    /\ Top("t1").op = "hasLibrary"

\* C2 (as claimed): requireLibrary never returns with the library still
\* unloaded: RequireEvent, which does nothing else, has returned only for
\* types whose library is in loaded_libraries.
C2_RequireIsFatal ==
    \A t \in Threads :
        result[t].op = "RequireEvent"
           => parseLoadName(result[t].type).lib \in loaded_libraries

\* The allowed-key stack a thread's container must hold given its frames:
\* the stack at the call, plus the call's own keys while its builder runs.
ScopeOf(f) ==
    IF f.pc = "build" /\ f.op \in LockedBuildOps
    THEN Append(f.entry, InfoOf(InfoKind(f.op), f.lib, f.elem).params)
    ELSE f.entry

\* C3: the allowed-key stack is pushed and popped in LIFO order at any
\* nesting depth, and when an outermost creation call has returned the
\* stack is the one it had when the call began.
C3_ScopeBalanced ==
    \A t \in Threads :
        /\ (~Running(t) /\ result[t].op \in LockedBuildOps)
              => params[t] = result[t].entry
        /\ Running(t) => params[t] = ScopeOf(Top(t))
        /\ \A i \in 1..(Len(stack[t]) - 1) :
              stack[t][i + 1].entry = ScopeOf(stack[t][i])

\* An outermost CreateComponent whose builder made a nested creation call
\* has returned, on a container whose stack was not empty.
C3_Witness ==
    /\ ~Running("t1")
    /\ result["t1"].op = "CreateComponent" /\ result["t1"].nested
    /\ params["t1"] = << {"g"} >>

\* The component types with a descriptor and a builder in a library that
\* can be loaded.
ComponentRegistered(type) ==
    LET p == parseLoadName(type)
    IN  /\ p.lib \in OnDisk \cup {SST}
        /\ p.elem \in InfoElems("Component", p.lib)
        /\ p.elem \in BuilderElems("Component", p.lib)

\* C4: a CreateComponent call on a type that is not registered never
\* reaches the builder and never returns; while it runs, and when it has
\* ended in out.fatal(), the allowed-key stack and the link map's allowed
\* ports are what they were when it began.
C4_UnregisteredIsFatal ==
    \A t \in Threads :
        /\ \A f \in Frames(t) :
              (f.op = "CreateComponent" /\ ~ComponentRegistered(f.type))
                 => /\ f.pc \in {"find", "load", "insert", "enter", "fatal"}
                    /\ f.pc = "fatal" => terminated = "fatal"
                    /\ params[t] = f.entry
                    /\ allowedPorts[t] = f.ports0
        /\ ~(result[t].op = "CreateComponent" /\ ~ComponentRegistered(result[t].type))

\* CreateComponent on a type with a descriptor and no builder has ended in
\* out.fatal(), after an earlier component had installed its ports.
C4_Witness ==
    /\ At("t1", {"fatal"})
    /\ Top("t1").op = "CreateComponent" /\ Top("t1").type = Tanb
    /\ allowedPorts["t1"].set
    /\ terminated = "fatal"

\* The threads between descriptor resolution and the builder's return.
InBuild(t) == \E f \in Frames(t) : f.op \in BuildOps /\ f.pc = "build"

\* C5 (as claimed): at most one thread at a time is between descriptor
\* resolution and the builder's return of a creation entry point.
C5_BuildSerialized ==
    Cardinality({t \in Threads : InBuild(t)}) <= 1

\* C6: with fair scheduling every Factory call a thread has started
\* returns or the process terminates, at any nesting inside builders; and
\* a call made from inside a builder never waits for factoryMutex, which
\* its thread already holds.
C6_CallsTerminate ==
    /\ \A t \in Threads : Running(t) ~> (~Running(t) \/ ~Alive)
    /\ [](\A t \in Threads : Len(stack[t]) >= 2 => mutexOwner = t)

\* A call made by a builder is inside findLibrary, about to call the
\* loader, while the other thread waits for the lock.
C6_Witness ==
    /\ Len(stack["t1"]) = 2 /\ At("t1", {"load"})
    /\ stack["t1"][1].op = "CreateComponent"
    /\ At("t2", {"find"})


\* The enable level a type's own descriptor declares for a statistic.
DeclaredLevel(type, name) ==
    LET p == parseLoadName(type)
    IN  IF p.elem \in InfoElems("Component", p.lib)
        THEN LevelIn(InfoOf("Component", p.lib, p.elem), name)
        ELSE LevelIn(InfoOf("SubComponent", p.lib, p.elem), name)

TypeRegistered(type) ==
    LET p == parseLoadName(type)
    IN  /\ p.lib \in OnDisk \cup {SST}
        /\ p.elem \in InfoElems("Component", p.lib) \cup InfoElems("SubComponent", p.lib)

\* C7 (as claimed): for a type registered as a component or a
\* sub-component, GetComponentInfoStatisticEnableLevel returns the level
\* the type declares for the statistic, and 0 when it declares none.
C7_EnableLevel ==
    \A t \in Threads :
        (result[t].op = "GetComponentInfoStatisticEnableLevel"
            /\ TypeRegistered(result[t].type))
           => result[t].val.n = DeclaredLevel(result[t].type, result[t].arg)

\* The port patterns a type's own descriptor declares.
DeclaredPorts(type) ==
    LET p == parseLoadName(type)
    IN  IF p.elem \in InfoElems("Component", p.lib)
        THEN InfoOf("Component", p.lib, p.elem).ports
        ELSE InfoOf("SubComponent", p.lib, p.elem).ports

\* C8 (as claimed): for a registered component or sub-component type
\* isPortNameValid returns whether one of the type's declared patterns
\* matches the name, without terminating or faulting.
C8_PortNameValid ==
    \A t \in Threads :
        /\ (result[t].op = "isPortNameValid" /\ TypeRegistered(result[t].type))
              => result[t].val.b =
                    (\E i \in 1..Len(DeclaredPorts(result[t].type)) :
                        checkPortRun(DeclaredPorts(result[t].type)[i], result[t].arg).ret)
        /\ \A f \in Frames(t) :
              (f.op = "isPortNameValid" /\ TypeRegistered(f.type))
                 => f.pc \notin {"fatal", "crash"}

\* C9: the loader is never invoked for "sst", and a call whose library
\* part is "sst" never enters findLibrary or loadLibrary from
\* requireLibrary, so it never inserts into loaded_libraries.
C9_SstNeverLoaded ==
    /\ loadCount[SST] = "0"
    /\ \A t \in Threads : \A f \in Frames(t) :
          (f.op \in RequireOps /\ f.lib = SST)
             => f.pc \notin {"find", "load", "insert"}

\* RequireEvent on a type of library "sst" has returned while another
\* library was loaded on demand.
C9_Witness ==
    /\ result["t1"].op = "RequireEvent" /\ result["t1"].type = Tse
    /\ loadCount[SST] = "0"
    /\ La \in loaded_libraries

\* C10: parseLoadName splits at the first '.': the library part holds no
\* '.', and library + "." + element is the name; a name without '.' is
\* returned as both parts; the warning is printed for the empty name only,
\* which yields two empty parts, and the process goes on.
C10_ParseLoadName ==
    pout.done =>
        /\ Dots(pin) # {} =>
              /\ Dots(pout.lib) = {}
              /\ pout.lib \o <<".">> \o pout.elem = pin
        /\ Dots(pin) = {} => (pout.lib = pin /\ pout.elem = pin)
        /\ pout.warned <=> (pin = EmptyStr)
        /\ pin = EmptyStr => (pout.lib = EmptyStr /\ pout.elem = EmptyStr)
        /\ terminated = "no"

\* A name with two '.' has been parsed: the second stays in the element.
C10_Witness ==
    /\ pout.done
    /\ Cardinality(Dots(pin)) = 2
    /\ Dots(pout.elem) # {}
    /\ pout.lib # EmptyStr

-----------------------------------------------------------------------------
(* Claims about libraries, creation order and the ambient type *)

LibOf(type) == parseLoadName(type).lib
ElemOf(type) == parseLoadName(type).elem
TopOf(stk) == stk[Len(stk)]

\* C15 (as claimed): a call is inside a builder of library L, or has
\* returned an instance of L, only when L is "sst" or a member of
\* loaded_libraries.
C15_ResolvedOnlyWhenLoaded ==
    \A t \in Threads :
        /\ \A f \in Frames(t) :
              (f.op \in BuildOps /\ f.pc = "build")
                  => (f.lib = SST \/ f.lib \in loaded_libraries)
        /\ (result[t].op \in BuildOps /\ result[t].val = InstanceVal)
              => (LibOf(result[t].type) = SST \/ LibOf(result[t].type) \in loaded_libraries)

\* C16: a load succeeds exactly when the registry reports the library
\* after the loader call: then the name is inserted and findLibrary is
\* true; otherwise the set and the process are left as they were and
\* findLibrary is false.  hasLibrary returns what findLibrary returned.
C16_LoadVerified ==
    /\ [](loaded_libraries \subseteq registered)
    /\ [][\A t \in Threads :
            /\ (At(t, {"load"}) /\ stack'[t] # stack[t]) =>
                  IF Head(Top(t).todo) \in registered'
                  THEN /\ TopOf(stack'[t]).pc = "insert"
                       /\ terminated' = terminated
                  ELSE /\ TopOf(stack'[t]).pc \in {"find", "enter"}
                       /\ ~TopOf(stack'[t]).found
                       /\ loaded_libraries' = loaded_libraries
                       /\ terminated' = terminated
            /\ (At(t, {"insert"}) /\ stack'[t] # stack[t]) =>
                  /\ loaded_libraries' = loaded_libraries \cup {Head(Top(t).todo)}
                  /\ TopOf(stack'[t]).found
            /\ (At(t, {"enter"}) /\ Top(t).op = "hasLibrary" /\ stack'[t] = NoFrames) =>
                  result'[t].val = BoolVal(Top(t).found)
         ]_vars

C16_Witness ==
    /\ Alive
    /\ result["t1"].op = "hasLibrary" /\ result["t1"].type = Lx
    /\ result["t1"].val = BoolVal(FALSE)
    /\ loadCount[Lx] # "0"
    /\ Lx \notin loaded_libraries
    /\ La \in loaded_libraries

\* C17: "sst" is always in loaded_libraries, and no step takes a name out.
C17_SetGrows ==
    /\ [](SST \in loaded_libraries)
    /\ [][loaded_libraries \subseteq loaded_libraries']_vars

C17_Witness ==
    /\ SST \in loaded_libraries
    /\ {La, Lb} \subseteq loaded_libraries
    /\ loadCount[Lx] # "0"
    /\ Lx \notin loaded_libraries

\* What the descriptor of a component type declares.
DeclaredParams(type) == InfoOf("Component", LibOf(type), ElemOf(type)).params
ComponentPorts(type) == InfoOf("Component", LibOf(type), ElemOf(type)).ports

\* C18: CreateComponent enters the builder in the step that installs the
\* declared ports and pushes the declared parameter names; as long as the
\* builder runs the ports and the pushed scope are in place; the step in
\* which the builder returns pops the scope and returns the instance.
C18_CreateOrder ==
    /\ [](\A t \in Threads : \A i \in 1..Len(stack[t]) :
            (stack[t][i].op = "CreateComponent" /\ stack[t][i].pc = "build") =>
               /\ allowedPorts[t] = [set |-> TRUE, ports |-> ComponentPorts(stack[t][i].type)]
               /\ Len(params[t]) > Len(stack[t][i].entry)
               /\ SubSeq(params[t], 1, Len(stack[t][i].entry) + 1)
                     = Append(stack[t][i].entry, DeclaredParams(stack[t][i].type)))
    /\ [][\A t \in Threads :
            /\ ( /\ At(t, {"enter"}) /\ Top(t).op = "CreateComponent"
                 /\ Len(stack'[t]) = Len(stack[t])
                 /\ TopOf(stack'[t]).pc = "build" ) =>
                  /\ params[t] = Top(t).entry
                  /\ params'[t] = Append(params[t], DeclaredParams(Top(t).type))
                  /\ allowedPorts'[t].set
            /\ ( /\ At(t, {"build"}) /\ Top(t).op = "CreateComponent"
                 /\ Len(stack'[t]) = Len(stack[t]) - 1 ) =>
                  /\ params[t] = Append(Top(t).entry, DeclaredParams(Top(t).type))
                  /\ params'[t] = Top(t).entry
                  /\ (Len(stack[t]) = 1 => result'[t].val = InstanceVal)
         ]_vars

C18_Witness ==
    /\ Alive
    /\ result["t1"].op = "CreateComponent" /\ result["t1"].type = Tac
    /\ result["t1"].val = InstanceVal
    /\ result["t1"].nested
    /\ allowedPorts["t1"] = [set |-> TRUE, ports |-> ComponentPorts(Tac)]
    /\ params["t1"] = result["t1"].entry

\* The registry a query consults holds the element of the type.
ConsultedHas(op, type) ==
    LET lib == LibOf(type)
        elem == ElemOf(type)
    IN  CASE op \in {"DoesComponentInfoStatisticNameExist", "GetComponentInfoStatisticUnits"} ->
               getLibrary("Component", lib) /\ getInfo("Component", lib, elem)
          [] op = "DoesSubComponentInfoStatisticNameExist" ->
               getLibrary("SubComponent", lib) /\ getInfo("SubComponent", lib, elem)
          [] OTHER ->
               \/ getLibrary("Component", lib) /\ getInfo("Component", lib, elem)
               \/ getLibrary("SubComponent", lib) /\ getInfo("SubComponent", lib, elem)

\* C19 (as claimed): an introspection query returns a value only for a type
\* whose element is registered in the registry it consults.
C19_UnregisteredQueryIsFatal ==
    \A t \in Threads :
        (result[t].op \in LockedQueryOps \cup {"GetComponentInfoStatisticUnits"}
            /\ result[t].type # EmptyStr)
        => ConsultedHas(result[t].op, result[t].type)

\* C20 (as claimed): while a thread is in the builder of CreateComponent for
\* type T, loadingComponentType is T; while no CreateComponent is in its
\* builder, it is empty.
C20_AmbientType ==
    /\ \A t \in Threads :
          (At(t, {"build"}) /\ Top(t).op = "CreateComponent")
              => loadingComponentType = Top(t).type
    /\ (\A t \in Threads : \A f \in Frames(t) :
            ~(f.op = "CreateComponent" /\ f.pc = "build"))
          => loadingComponentType = EmptyStr

\* C21 (as claimed): a thread that is at a read of loaded_libraries (the
\* test of isPortNameValid and GetComponentInfoStatisticUnits, the loop of
\* getLoadedLibraryNames) or inside loadLibrary holds factoryMutex.
C21_SetAccessLocked ==
    \A t \in Threads :
        (Alive /\ At(t, {"peek", "names", "load", "insert"})) => mutexOwner = t

-----------------------------------------------------------------------------
(* Claims about the port matcher, under PortSpec *)

IsPrefix(u, w) == Len(u) <= Len(w) /\ SubSeq(w, 1, Len(u)) = u
HasPercent(w) == \E i \in 1..Len(w) : w[i] = "%"
AllDigits(w) == \A i \in 1..Len(w) : w[i] \in Digits

\* A position of the pattern where a placeholder marker starts.
MarkerAt(def, i) == CharAt(def, i) = "%" /\ CharAt(def, i + 1) \in {"d", "("}
NoMarker(def) == \A i \in 1..Len(def) : ~MarkerAt(def, i)

\* C11: for a pattern without placeholder marker the matcher returns true
\* exactly when the pattern is "*" or the candidate equals the pattern
\* character for character; proper prefixes and extensions are rejected.
C11_LiteralMatch ==
    (pout.done /\ NoMarker(pin.def)) =>
        /\ ~pout.oob
        /\ pout.ret <=> (pin.def = <<"*">> \/ pin.offered = pin.def)

C11_Witness ==
    /\ pout.done /\ NoMarker(pin.def)
    /\ pin.def = <<"p", "1">> /\ pin.offered = <<"p", "1", "p">>
    /\ ~pout.ret

\* The two placeholder forms.
Placeholders == { <<"%", "d">>, <<"%", "(", "n", ")", "d">> }

\* The ways to read def as u + P + v and offered as u + X + v, with u and v
\* free of '%', v not starting with a digit and X not empty.
PlaceholderSplits(def, offered) ==
    { c \in [i : 0..Len(def), P : Placeholders] :
        LET u == SubSeq(def, 1, c.i)
            v == SubSeq(def, c.i + Len(c.P) + 1, Len(def))
        IN  /\ c.i + Len(c.P) <= Len(def)
            /\ SubSeq(def, c.i + 1, c.i + Len(c.P)) = c.P
            /\ ~HasPercent(u) /\ ~HasPercent(v)
            /\ (v = << >> \/ v[1] \notin Digits)
            /\ Len(offered) > Len(u) + Len(v)
            /\ IsPrefix(u, offered)
            /\ SubSeq(offered, Len(offered) - Len(v) + 1, Len(offered)) = v }

MiddleOf(def, offered, c) ==
    SubSeq(offered, c.i + 1, Len(offered) - (Len(def) - c.i - Len(c.P)))

\* C12: pattern u + P + v accepts u + D + v for every non-empty digit
\* string D and rejects u + X + v for every non-empty X holding a non-digit.
C12_PlaceholderDigits ==
    pout.done =>
        \A c \in PlaceholderSplits(pin.def, pin.offered) :
            /\ ~pout.oob
            /\ pout.ret <=> AllDigits(MiddleOf(pin.def, pin.offered, c))

C12_Witness ==
    /\ pout.done
    /\ pin.def = <<"p", "%", "(", "n", ")", "d", "p">>
    /\ pin.offered = <<"p", "1", "p">>
    /\ PlaceholderSplits(pin.def, pin.offered) # {}
    /\ pout.ret

\* The position after the ')' that closes the name opened at i + 1, or 0
\* when the pattern ends first.
AfterName(def, i) ==
    IF \E j \in (i + 2)..Len(def) : def[j] = ")"
    THEN (CHOOSE j \in (i + 2)..Len(def) :
              def[j] = ")" /\ \A k \in (i + 2)..(j - 1) : def[k] # ")") + 1
    ELSE 0

\* A "%(" at i whose name is not closed, or is not followed by 'd'.
MalformedAt(def, i) ==
    /\ CharAt(def, i) = "%" /\ CharAt(def, i + 1) = "("
    /\ (AfterName(def, i) = 0 \/ CharAt(def, AfterName(def, i)) # "d")

\* The position after the marker that starts at i.
AfterMarker(def, i) == IF CharAt(def, i + 1) = "d" THEN i + 2 ELSE AfterName(def, i) + 1

\* The lock-step scan: a marker is skipped whole together with the digits
\* the candidate has there, possibly none; any other position is compared
\* literally; both cursors must reach the end together.
RECURSIVE LockStepScan(_, _, _, _)
LockStepScan(def, offered, x, y) ==
    IF MarkerAt(def, x)
    THEN IF MalformedAt(def, x) THEN FALSE
         ELSE LockStepScan(def, offered, AfterMarker(def, x), SkipDigits(offered, y))
    ELSE IF x > Len(def) \/ y > Len(offered) THEN x > Len(def) /\ y > Len(offered)
    ELSE IF def[x] # offered[y] THEN FALSE
    ELSE LockStepScan(def, offered, x + 1, y + 1)

matchPort(def, offered) == def = <<"*">> \/ LockStepScan(def, offered, 1, 1)

\* C13 (as claimed): checkPort returns what the lock-step scan returns, for
\* every pattern and candidate.
C13_LockStepScan ==
    pout.done => (pout.ret <=> matchPort(pin.def, pin.offered))

\* C14 (as claimed): a pattern with a malformed marker is rejected for
\* every candidate that matches the pattern up to the marker, and the
\* pattern cursor stays within the pattern and its terminator.
C14_MalformedRejected ==
    pout.done =>
        \A i \in 1..Len(pin.def) :
            ( /\ MalformedAt(pin.def, i)
              /\ ~HasPercent(SubSeq(pin.def, 1, i - 1))
              /\ IsPrefix(SubSeq(pin.def, 1, i - 1), pin.offered) )
            => (~pout.ret /\ ~pout.oob)

=============================================================================
